---------------------------- MODULE Spec2Model ----------------------------
(***************************************************************************)
(* A model of the e-commerce support agent (src/src/graph.py and           *)
(* src/src/tools.py): the five tools, and the four-node workflow           *)
(* router -> tool_selector -> policy_guard -> responder that               *)
(* EcommerceAgent.process_message runs for every message.                  *)
(*                                                                         *)
(* Python strings are sequences of one-character strings, so that          *)
(* lower(), strip(), split(), the "in" substring test and the regular      *)
(* expressions are computed as the code computes them.  A user message is  *)
(* kept as the sequence of its whitespace-separated words: the string is   *)
(* the words joined by single blanks.  No keyword or pattern the           *)
(* dispatcher looks for contains a blank, so each occurrence lies inside   *)
(* one word.                                                               *)
(***************************************************************************)
EXTENDS Integers, Sequences, FiniteSets, TLC

-----------------------------------------------------------------------------
(* Python str primitives *)

UpperLetters == <<"A","B","C","D","E","F","G","H","I","J","K","L","M",
                  "N","O","P","Q","R","S","T","U","V","W","X","Y","Z">>
LowerLetters == <<"a","b","c","d","e","f","g","h","i","j","k","l","m",
                  "n","o","p","q","r","s","t","u","v","w","x","y","z">>
Digits == {"0","1","2","3","4","5","6","7","8","9"}

Range(f) == {f[i] : i \in DOMAIN f}

IsUpper(c) == c \in Range(UpperLetters)
IsLetter(c) == c \in Range(UpperLetters) \cup Range(LowerLetters)
IsDigit(c) == c \in Digits
\* the regular-expression class \w
IsWordChar(c) == IsLetter(c) \/ IsDigit(c) \/ c = "_"
IsSpace(c) == c \in {" ", "\n", "\t"}

LowerChar(c) ==
    IF IsUpper(c)
    THEN LowerLetters[CHOOSE i \in DOMAIN UpperLetters : UpperLetters[i] = c]
    ELSE c

\* str.lower()
Lower(s) == [i \in DOMAIN s |-> LowerChar(s[i])]

\* needle in hay
Contains(hay, needle) ==
    \E i \in 1..(Len(hay) - Len(needle) + 1) :
        SubSeq(hay, i, i + Len(needle) - 1) = needle

\* str.startswith(prefix)
StartsWith(s, prefix) ==
    Len(s) >= Len(prefix) /\ SubSeq(s, 1, Len(prefix)) = prefix

\* str.strip()
Strip(s) ==
    LET inner == {i \in DOMAIN s : ~IsSpace(s[i])}
    IN  IF inner = {} THEN <<>>
        ELSE SubSeq(s, CHOOSE i \in inner : \A j \in inner : i <= j,
                       CHOOSE i \in inner : \A j \in inner : j <= i)

\* str.replace(ch, "") for a one-character ch
RECURSIVE RemoveChar(_, _)
RemoveChar(s, ch) ==
    IF s = <<>> THEN <<>>
    ELSE IF Head(s) = ch THEN RemoveChar(Tail(s), ch)
    ELSE <<Head(s)>> \o RemoveChar(Tail(s), ch)

\* " ".join(parts)
RECURSIVE JoinSpace(_)
JoinSpace(parts) ==
    IF parts = <<>> THEN <<>>
    ELSE IF Len(parts) = 1 THEN parts[1]
    ELSE parts[1] \o <<" ">> \o JoinSpace(Tail(parts))

DigitValue(c) ==
    CASE c = "0" -> 0 [] c = "1" -> 1 [] c = "2" -> 2 [] c = "3" -> 3
      [] c = "4" -> 4 [] c = "5" -> 5 [] c = "6" -> 6 [] c = "7" -> 7
      [] c = "8" -> 8 [] c = "9" -> 9

RECURSIVE DecimalValue(_)
DecimalValue(s) ==
    IF s = <<>> THEN 0
    ELSE 10 * DecimalValue(SubSeq(s, 1, Len(s) - 1)) + DigitValue(s[Len(s)])

\* int(s) succeeds: an optional sign and at least one digit
IntParses(s) ==
    LET body == IF s # <<>> /\ s[1] \in {"+", "-"} THEN Tail(s) ELSE s
    IN  body # <<>> /\ \A i \in DOMAIN body : IsDigit(body[i])

\* int(s), where IntParses(s)
IntOf(s) ==
    IF s[1] = "-" THEN 0 - DecimalValue(Tail(s))
    ELSE IF s[1] = "+" THEN DecimalValue(Tail(s))
    ELSE DecimalValue(s)

\* the smallest and the largest element of a non-empty set of integers
Min(S) == CHOOSE x \in S : \A y \in S : x <= y
Max(S) == CHOOSE x \in S : \A y \in S : y <= x

\* Python's None
None == [py_none |-> TRUE]

-----------------------------------------------------------------------------
(* Regular expressions of tool_selector_node, on one word *)

\* \b at the gap before position p (1..Len(w)+1)
Boundary(w, p) ==
    LET before == p > 1 /\ IsWordChar(w[p - 1])
        after  == p <= Len(w) /\ IsWordChar(w[p])
    IN  before # after

AllIn(w, i, j, Class(_)) == \A k \in i..j : Class(w[k])

\* r'\b\d{5,6}\b': the matches (i, j) in w
ZipMatches(w) ==
    {m \in (DOMAIN w) \X (DOMAIN w) :
        /\ m[2] - m[1] + 1 \in {5, 6}
        /\ AllIn(w, m[1], m[2], IsDigit)
        /\ Boundary(w, m[1])
        /\ Boundary(w, m[2] + 1)}

\* r'\b[A-Z]\d+\b'
OrderIdMatches(w) ==
    {m \in (DOMAIN w) \X (DOMAIN w) :
        /\ m[2] > m[1]
        /\ IsUpper(w[m[1]])
        /\ AllIn(w, m[1] + 1, m[2], IsDigit)
        /\ Boundary(w, m[1])
        /\ Boundary(w, m[2] + 1)}

EmailLocalChar(c) == IsLetter(c) \/ IsDigit(c) \/ c \in {".", "_", "%", "+", "-"}
EmailDomainChar(c) == IsLetter(c) \/ IsDigit(c) \/ c \in {".", "-"}
\* the class [A-Z|a-z] holds the bar
EmailTldChar(c) == IsLetter(c) \/ c = "|"

\* r'\b[A-Za-z0-9._%+-]+@[A-Za-z0-9.-]+\.[A-Z|a-z]{2,}\b'
EmailMatches(w) ==
    {m \in (DOMAIN w) \X (DOMAIN w) :
        /\ Boundary(w, m[1])
        /\ Boundary(w, m[2] + 1)
        /\ \E a \in (m[1] + 1)..m[2] : \E d \in (a + 2)..(m[2] - 2) :
              /\ w[a] = "@"
              /\ w[d] = "."
              /\ AllIn(w, m[1], a - 1, EmailLocalChar)
              /\ AllIn(w, a + 1, d - 1, EmailDomainChar)
              /\ AllIn(w, d + 1, m[2], EmailTldChar)}

\* re.search on one word: the leftmost match, taken greedily; None if none.
\* In each of the three patterns the greedy match at a start is the longest.
FirstMatch(w, matches) ==
    IF matches = {} THEN None
    ELSE LET i == Min({m[1] : m \in matches})
             j == Max({m[2] : m \in {n \in matches : n[1] = i}})
         IN  [group |-> SubSeq(w, i, j)]

-----------------------------------------------------------------------------
(* String literals of the code *)

s_cancel == <<"c", "a", "n", "c", "e", "l">>
s_order == <<"o", "r", "d", "e", "r">>
s_refund == <<"r", "e", "f", "u", "n", "d">>
s_return == <<"r", "e", "t", "u", "r", "n">>
s_dress == <<"d", "r", "e", "s", "s">>
s_product == <<"p", "r", "o", "d", "u", "c", "t">>
s_size == <<"s", "i", "z", "e">>
s_wedding == <<"w", "e", "d", "d", "i", "n", "g">>
s_find == <<"f", "i", "n", "d">>
s_recommend == <<"r", "e", "c", "o", "m", "m", "e", "n", "d">>
s_midi == <<"m", "i", "d", "i">>
s_party == <<"p", "a", "r", "t", "y">>
s_m_l == <<"m", "/", "l">>
s_between_m_l == <<"b", "e", "t", "w", "e", "e", "n", " ", "m", "/", "l">>
s_between == <<"b", "e", "t", "w", "e", "e", "n">>
s_discount == <<"d", "i", "s", "c", "o", "u", "n", "t">>
s_code == <<"c", "o", "d", "e">>
s_loose == <<"l", "o", "o", "s", "e">>
s_comfortable == <<"c", "o", "m", "f", "o", "r", "t", "a", "b", "l", "e">>
s_fitted == <<"f", "i", "t", "t", "e", "d">>
s_tight == <<"t", "i", "g", "h", "t">>
s_under == <<"u", "n", "d", "e", "r">>
s_below == <<"b", "e", "l", "o", "w">>
s_max == <<"m", "a", "x">>
s_560 == <<"5", "6", "0">>
s_600 == <<"6", "0", "0">>
s_400 == <<"4", "0", "0">>

\* the intents
s_product_assist == <<"p", "r", "o", "d", "u", "c", "t", "_", "a", "s", "s", "i", "s", "t">>
s_order_help == <<"o", "r", "d", "e", "r", "_", "h", "e", "l", "p">>
s_other == <<"o", "t", "h", "e", "r">>
s_error == <<"e", "r", "r", "o", "r">>

-----------------------------------------------------------------------------
(* Timestamps.  An ISO-8601 UTC timestamp "2025-09-DDThh:mm:ssZ" is the     *)
(* record of its fields; datetime.fromisoformat turns it into a point in   *)
(* time, here the seconds since the start of the month.                    *)

Timestamp(d, h, m, s) == [day |-> d, hh |-> h, mm |-> m, ss |-> s]

\* datetime.fromisoformat(ts.replace('Z', '+00:00'))
FromIsoFormat(ts) == ((ts.day * 24 + ts.hh) * 60 + ts.mm) * 60 + ts.ss

\* f"{minutes:.1f}" of seconds / 60, as a number of tenths of a minute
\* (seconds that are an odd multiple of 3 lie between two tenths and are
\* rounded as the binary fraction falls; the model rounds them up)
FormatMinutes(seconds) == (seconds + 3) \div 6

-----------------------------------------------------------------------------
(* The tools of src/src/tools.py.  Each takes the list its load_* call     *)
(* returned as its first argument.                                         *)

\* a search that forgets to truncate
Take_NoLimit(seq, n) == seq

\* results[:n]
Take(seq, n) == SubSeq(seq, 1, IF Len(seq) < n THEN Len(seq) ELSE n)

SearchLimit == 2

ProductMatchesQuery(product, query_lower, price_max) ==
    /\ ~(product.price > price_max)
    /\ \/ Contains(Lower(product.title), query_lower)
       \/ \E t \in DOMAIN product.tags :
              Contains(Lower(product.tags[t]), query_lower)

ProductHasTag(product, tags) ==
    \E g \in DOMAIN tags : \E t \in DOMAIN product.tags :
        Lower(tags[g]) = Lower(product.tags[t])

\* tags is the list given, or <<>> for None: "if tags:" treats both alike
product_search(products, query, price_max, tags) ==
    LET query_lower == Lower(query)
        Hit(p) == ProductMatchesQuery(p, query_lower, price_max)
        results == SelectSeq(products, Hit)
        Tagged(p) == ProductHasTag(p, tags)
        filtered == IF tags # <<>>
                    THEN SelectSeq(results, Tagged)
                    ELSE results
    IN  Take(filtered, SearchLimit)

\* a recommender that looks for "loose" before "m/l"
size_recommender_LooseFirst(preference_raw) ==
    LET preference == Lower(preference_raw)
    IN  IF Contains(preference, s_loose) \/ Contains(preference, s_comfortable)
        THEN [recommended_size |-> "L", rationale |-> "comfortable, loose fit"]
        ELSE IF Contains(preference, s_between_m_l) \/ Contains(preference, s_m_l)
        THEN [recommended_size |-> "M", rationale |-> "between M/L"]
        ELSE IF Contains(preference, s_fitted) \/ Contains(preference, s_tight)
        THEN [recommended_size |-> "M", rationale |-> "fitted look"]
        ELSE [recommended_size |-> "M", rationale |-> "versatile middle option"]

size_recommender(preference_raw) ==
    LET preference == Lower(preference_raw)
    IN  IF Contains(preference, s_between_m_l) \/ Contains(preference, s_m_l)
        THEN [recommended_size |-> "M", rationale |-> "between M/L"]
        ELSE IF Contains(preference, s_loose) \/ Contains(preference, s_comfortable)
        THEN [recommended_size |-> "L", rationale |-> "comfortable, loose fit"]
        ELSE IF Contains(preference, s_fitted) \/ Contains(preference, s_tight)
        THEN [recommended_size |-> "M", rationale |-> "fitted look"]
        ELSE [recommended_size |-> "M", rationale |-> "versatile middle option"]

eta(zip_code) ==
    LET Starts(prefixes) == \E p \in prefixes : StartsWith(zip_code, p)
        tier == IF Starts({s_560, s_600, s_400})
                THEN [eta_days |-> "2-3", region |-> "metro"]
                ELSE IF Starts({<<"1">>, <<"2">>, <<"3">>})
                THEN [eta_days |-> "2-4", region |-> "east"]
                ELSE IF Starts({<<"9">>, <<"8">>})
                THEN [eta_days |-> "3-5", region |-> "west"]
                ELSE [eta_days |-> "3-5", region |-> "standard"]
    IN  [eta_days |-> tier.eta_days, zip |-> zip_code, region |-> tier.region]

\* an email comparison that minds the case
OrderMatches_CaseSensitive(order, order_id, email) ==
    order.order_id = order_id /\ order.email = email

\* a lookup that does not verify the email
OrderMatches_IdOnly(order, order_id, email) == order.order_id = order_id

OrderMatches(order, order_id, email) ==
    order.order_id = order_id /\ Lower(order.email) = Lower(email)

order_lookup(orders, order_id, email) ==
    LET hits == {i \in DOMAIN orders : OrderMatches(orders[i], order_id, email)}
    IN  IF hits = {} THEN None ELSE orders[Min(hits)]

CancelWindowMinutes == 60

\* a window that closes at the sixtieth minute
WithinWindow_Exclusive(seconds_elapsed) == seconds_elapsed < CancelWindowMinutes * 60

\* minutes_elapsed <= 60, with minutes_elapsed = seconds_elapsed / 60
WithinWindow(seconds_elapsed) == seconds_elapsed <= CancelWindowMinutes * 60

CancelAlternatives ==
    << "Edit your shipping address if the order hasn't shipped yet",
       "Convert to store credit for future purchases",
       "Contact customer support for special assistance" >>

CancelRefundInfo == "Full refund will be processed within 3-5 business days."

\* the three results of order_cancel
CancelNotFound ==
    [success |-> FALSE,
     reason |-> [text |-> "Order not found"],
     policy_decision |-> [cancel_allowed |-> FALSE,
                          reason |-> [text |-> "Order not found"]]]

CancelAllowed(seconds_elapsed) ==
    [success |-> TRUE,
     reason |-> [text |-> "Order cancelled successfully",
                 minutes |-> FormatMinutes(seconds_elapsed)],
     policy_decision |->
         [cancel_allowed |-> TRUE,
          reason |-> [text |-> "Within 60-minute window",
                      minutes |-> FormatMinutes(seconds_elapsed)]],
     refund_info |-> CancelRefundInfo]

\* a blocked result whose decision was copied from the allowed one
CancelBlocked_AllowedDecision(seconds_elapsed) ==
    [success |-> FALSE,
     reason |-> [text |-> "Cancellation not allowed",
                 minutes |-> FormatMinutes(seconds_elapsed)],
     policy_decision |->
         [cancel_allowed |-> TRUE,
          reason |-> [text |-> "Within 60-minute window",
                      minutes |-> FormatMinutes(seconds_elapsed)]],
     alternatives |-> CancelAlternatives]

CancelBlocked(seconds_elapsed) ==
    [success |-> FALSE,
     reason |-> [text |-> "Cancellation not allowed",
                 minutes |-> FormatMinutes(seconds_elapsed)],
     policy_decision |->
         [cancel_allowed |-> FALSE,
          reason |-> [text |-> "Exceeds 60-minute limit",
                      minutes |-> FormatMinutes(seconds_elapsed)]],
     alternatives |-> CancelAlternatives]

\* current_timestamp is a Timestamp or None; clock is datetime.now(timezone.utc)
order_cancel(orders, order_id, current_timestamp, clock) ==
    LET hits == {i \in DOMAIN orders : orders[i].order_id = order_id}
    IN  IF hits = {} THEN CancelNotFound
        ELSE
        LET order == orders[Min(hits)]
            created_at == FromIsoFormat(order.created_at)
            current_time == IF current_timestamp # None
                            THEN FromIsoFormat(current_timestamp)
                            ELSE FromIsoFormat(clock)
            seconds_elapsed == current_time - created_at
        IN  IF WithinWindow(seconds_elapsed)
            THEN CancelAllowed(seconds_elapsed)
            ELSE CancelBlocked(seconds_elapsed)

-----------------------------------------------------------------------------
(* The user messages *)

mira_email == <<"m", "i", "r", "a", "@", "e", "x", "a", "m", "p", "l", "e", ".", "c", "o", "m">>
alex_email == <<"a", "l", "e", "x", "@", "e", "x", "a", "m", "p", "l", "e", ".", "c", "o", "m">>
w_Mira_email == <<"M", "i", "r", "a", "@", "E", "x", "a", "m", "p", "l", "e", ".", "c", "o", "m">>
w_A1003 == <<"A", "1", "0", "0", "3">>
w_A1002 == <<"A", "1", "0", "0", "2">>
w_A9999 == <<"A", "9", "9", "9", "9">>
w_Cancel == <<"C", "a", "n", "c", "e", "l">>
w_discount_code == <<"d", "i", "s", "c", "o", "u", "n", "t", "-", "c", "o", "d", "e">>
w_M_L == <<"M", "/", "L">>
w_zip == <<"5", "6", "0", "0", "0", "1">>
w_hello == <<"h", "e", "l", "l", "o">>

\* a code point a Python str can hold and UTF-8 cannot encode: the lone
\* surrogate U+D800 (what json.loads gives for "\ud800")
LoneSurrogate == "U+D800"
w_surrogate == <<LoneSurrogate>>

\* the start of the product prompt of tests/run_tests.py, "Wedding guest,
\* midi, under $120", and the same with a lower ceiling
s_Wedding == <<"W", "e", "d", "d", "i", "n", "g">>
w_guest == <<"g", "u", "e", "s", "t", ",">>
w_midi == <<"m", "i", "d", "i", ",">>
w_120 == <<"$", "1", "2", "0">>
w_100 == <<"$", "1", "0", "0">>
TestPrompts ==
    { <<s_Wedding, w_guest, w_midi, s_under, w_120>>,
      <<s_Wedding, w_guest, w_midi, s_under, w_100>> }
PromptWords == UNION {Range(prompt) : prompt \in TestPrompts}

\* all sequences over S of length at most n
SeqUpTo(S, n) == UNION {[1..k -> S] : k \in 0..n}

\* a str argument, as its words, and a non-str one (None)
Text(words) == [words |-> words]
IsText(user_input) == user_input # None

\* The messages: up to MaxWords words about an order, or as many about
\* products, or a non-string.
MaxWords == 4
OrderWords ==
    {w_Cancel, w_A1003, w_A1002, w_Mira_email, alex_email, w_discount_code}
ProductWords == {s_dress, w_M_L, w_zip, w_hello, s_discount, w_Cancel}
Vocabulary == OrderWords \cup ProductWords \cup PromptWords
UserInputs ==
    {Text(words) : words \in SeqUpTo(OrderWords, MaxWords)
                            \cup SeqUpTo(ProductWords, MaxWords)}
    \cup {Text(prompt) : prompt \in TestPrompts}
    \cup {Text(<<w_surrogate>>), Text(<<w_Cancel, w_surrogate>>)}
    \cup {None}

\* print(f"... '{user_input}'") on the standard output, which encodes to
\* UTF-8: a lone surrogate raises UnicodeEncodeError; anything else, and the
\* str() of a non-string, is written
Printable(user_input) ==
    \/ ~IsText(user_input)
    \/ \A i \in DOMAIN user_input.words :
           \A k \in DOMAIN user_input.words[i] :
               user_input.words[i][k] # LoneSurrogate

\* the keywords graph.py looks for with "in"
Keywords ==
    {s_cancel, s_order, s_refund, s_return, s_dress, s_product, s_size,
     s_wedding, s_find, s_recommend, s_midi, s_party, s_m_l, s_between,
     s_discount, s_code}

\* Per word of the vocabulary, computed once: word.lower(), the keywords in
\* it, and what re.search finds in it.
LowerOf == [w \in Vocabulary |-> Lower(w)]
KeywordsIn == [w \in Vocabulary |-> {k \in Keywords : Contains(Lower(w), k)}]
ZipIn == [w \in Vocabulary |-> FirstMatch(w, ZipMatches(w))]
OrderIdIn == [w \in Vocabulary |-> FirstMatch(w, OrderIdMatches(w))]
EmailIn == [w \in Vocabulary |-> FirstMatch(w, EmailMatches(w))]

\* user_input.lower().split()
LowerWords(user_input) ==
    [i \in DOMAIN user_input.words |-> LowerOf[user_input.words[i]]]

\* keyword in user_input.lower()
InText(user_input, keyword) ==
    \E i \in DOMAIN user_input.words : keyword \in KeywordsIn[user_input.words[i]]

\* re.search(pattern, user_input): the match in the first word that has one
Search(user_input, MatchIn) ==
    LET hits == {i \in DOMAIN user_input.words : MatchIn[user_input.words[i]] # None}
    IN  IF hits = {} THEN None ELSE MatchIn[user_input.words[Min(hits)]]

-----------------------------------------------------------------------------
(* The nodes of src/src/graph.py as functions of the AgentState.  What the *)
(* environment decides (the language model's answer, whether a data file   *)
(* can be read) is an argument.  A node yields Ok(state) or Raised(error). *)

Ok(st) == [raised |-> FALSE, state |-> st]
Raised(exc) == [raised |-> TRUE, error |-> exc]

\* a dict with string keys
EmptyDict == [k \in {} |-> None]
Put(d, key, value) ==
    [k \in (DOMAIN d) \cup {key} |-> IF k = key THEN value ELSE d[k]]

\* what load_products() or load_orders() did
Loaded(data) == [ok |-> TRUE, data |-> data]
LoadError == [ok |-> FALSE]

LlmErrorText == <<"I", "'", "m", " ", "h", "a", "v", "i", "n", "g", " ", "t", "r", "o", "u", "b", "l", "e", " ", "p", "r", "o", "c", "e", "s", "s", "i", "n", "g", " ", "y", "o", "u", "r", " ", "r", "e", "q", "u", "e", "s", "t", " ", "r", "i", "g", "h", "t", " ", "n", "o", "w", ".">>

\* outcome: what model.generate_content did, LlmRaised or LlmText(text)
LlmRaised == [raised |-> TRUE]
LlmText(text) == [raised |-> FALSE, text |-> text]

\* a call_llm that answers "other" when the model fails
call_llm_OtherOnError(outcome) ==
    IF outcome.raised THEN s_other ELSE Strip(outcome.text)

call_llm(outcome) ==
    IF outcome.raised THEN LlmErrorText ELSE Strip(outcome.text)

ValidIntents == {s_product_assist, s_order_help, s_other}

OrderKeywords == {s_cancel, s_order, s_refund, s_return}
ProductKeywords == {s_dress, s_product, s_size, s_wedding, s_find, s_recommend}

KeywordIntent(user_input) ==
    IF \E k \in OrderKeywords : InText(user_input, k) THEN s_order_help
    ELSE IF \E k \in ProductKeywords : InText(user_input, k) THEN s_product_assist
    ELSE s_other

\* a router that takes the classifier's answer as it comes
router_node_Unvalidated(st, outcome) ==
    Ok([st EXCEPT !.intent = Strip(Lower(call_llm(outcome)))])

router_node(st, outcome) ==
    LET intent == Strip(Lower(call_llm(outcome)))
    IN  IF intent \in ValidIntents THEN Ok([st EXCEPT !.intent = intent])
        \* None.lower() raises inside the try: "Default fallback"
        ELSE IF ~IsText(st.user_input) THEN Ok([st EXCEPT !.intent = s_other])
        ELSE Ok([st EXCEPT !.intent = KeywordIntent(st.user_input)])

DefaultPriceMax == 1000

PriceText(word) == RemoveChar(RemoveChar(word, "$"), ",")

\* the price loop over words = user_input.lower().split()
PriceMax(words) ==
    LET hits == {i \in 1..(Len(words) - 1) :
                    /\ words[i] \in {s_under, s_below, s_max}
                    /\ IntParses(PriceText(words[i + 1]))}
    IN  IF hits = {} THEN DefaultPriceMax
        ELSE IntOf(PriceText(words[Min(hits) + 1]))

SearchQuery(user_input) ==
    LET query_terms ==
            (IF InText(user_input, s_wedding) THEN <<s_wedding>> ELSE <<>>)
         \o (IF InText(user_input, s_midi) THEN <<s_midi>> ELSE <<>>)
         \o (IF InText(user_input, s_party) THEN <<s_party>> ELSE <<>>)
    IN  IF query_terms # <<>> THEN JoinSpace(query_terms) ELSE s_dress

\* a product summary that leaves the price out
ProductEvidence_NoPrice(product) ==
    [product_id |-> product.id, title |-> product.title,
     sizes |-> product.sizes, color |-> product.color]

ProductEvidence(product) ==
    [product_id |-> product.id, title |-> product.title,
     price |-> product.price, sizes |-> product.sizes, color |-> product.color]

OrderEvidence(order) ==
    [order_id |-> order.order_id, email |-> order.email,
     created_at |-> order.created_at, items |-> order.items]

SizeKeywords == {s_size, s_m_l, s_between}

\* the product_assist branch; the local lists it builds
ProductAssistTools(user_input, products_load) ==
    LET price_max == PriceMax(LowerWords(user_input))
        searched == products_load.ok
        products == IF searched
                    THEN product_search(products_load.data,
                                        SearchQuery(user_input), price_max, <<>>)
                    ELSE <<>>
        sized == \E k \in SizeKeywords : InText(user_input, k)
        zip_match == Search(user_input, ZipIn)
        r1 == IF searched THEN Put(EmptyDict, "product_search", products)
              ELSE EmptyDict
        r2 == IF sized
              THEN Put(r1, "size_recommender",
                       size_recommender(JoinSpace(LowerWords(user_input))))
              ELSE r1
        r3 == IF zip_match # None THEN Put(r2, "eta", eta(zip_match.group)) ELSE r2
    IN  [tools_called |->
             (IF searched THEN <<"product_search">> ELSE <<>>)
          \o (IF sized THEN <<"size_recommender">> ELSE <<>>)
          \o (IF zip_match # None THEN <<"eta">> ELSE <<>>),
         tool_results |-> r3,
         evidence |-> [i \in DOMAIN products |-> ProductEvidence(products[i])]]

\* a dispatcher that cancels whatever order it found
IsCancelRequest_Always(user_input) == TRUE

\* "cancel" in user_input.lower()
IsCancelRequest(user_input) == InText(user_input, s_cancel)

\* a dispatcher that passes no timestamp: order_cancel reads the clock
MockTimestamp_Unpinned == None

\* the timestamp tool_selector_node passes to order_cancel
MockTimestamp == Timestamp(7, 12, 30, 0)

\* the order_help branch; lookup_load and cancel_load are its two load_orders()
OrderHelpTools(user_input, lookup_load, cancel_load, clock) ==
    LET order_match == Search(user_input, OrderIdIn)
        email_match == Search(user_input, EmailIn)
        looked == order_match # None /\ email_match # None /\ lookup_load.ok
        order == IF looked
                 THEN order_lookup(lookup_load.data, order_match.group,
                                   email_match.group)
                 ELSE None
        cancelled == /\ looked
                     /\ order # None
                     /\ IsCancelRequest(user_input)
                     /\ cancel_load.ok
        r1 == IF looked THEN Put(EmptyDict, "order_lookup", order) ELSE EmptyDict
        r2 == IF cancelled
              THEN Put(r1, "order_cancel",
                       order_cancel(cancel_load.data, order_match.group,
                                    MockTimestamp, clock))
              ELSE r1
    IN  [tools_called |->
             (IF looked THEN <<"order_lookup">> ELSE <<>>)
          \o (IF cancelled THEN <<"order_cancel">> ELSE <<>>),
         tool_results |-> r2,
         evidence |-> IF order # None THEN <<OrderEvidence(order)>> ELSE <<>>]

NoTools == [tools_called |-> <<>>, tool_results |-> EmptyDict, evidence |-> <<>>]

tool_selector_node(st, products_load, lookup_load, cancel_load, clock) ==
    LET Done(lists) ==
            Ok([st EXCEPT !.tools_called = lists.tools_called,
                          !.tool_results = lists.tool_results,
                          !.evidence = lists.evidence])
    IN  IF st.intent = s_product_assist
        THEN IF ~IsText(st.user_input) THEN Raised("AttributeError")
             ELSE Done(ProductAssistTools(st.user_input, products_load))
        ELSE IF st.intent = s_order_help
        THEN IF ~IsText(st.user_input) THEN Raised("TypeError")
             ELSE Done(OrderHelpTools(st.user_input, lookup_load, cancel_load, clock))
        ELSE Done(NoTools)

DiscountAlternatives ==
    << "Sign up for our newsletter to get future discount codes",
       "Check our current promotions page",
       "First-time customers get 10% off their first order" >>

DiscountRefusal ==
    [refuse |-> TRUE,
     reason |-> "Non-existent discount code requested",
     alternatives |-> DiscountAlternatives]

\* a guard that checks the discount words first
policy_guard_node_DiscountFirst(st) ==
    IF ~IsText(st.user_input) THEN Raised("AttributeError")
    ELSE IF InText(st.user_input, s_discount) /\ InText(st.user_input, s_code)
    THEN Ok([st EXCEPT !.policy_decision = DiscountRefusal])
    ELSE IF "order_cancel" \in DOMAIN st.tool_results
    THEN Ok([st EXCEPT !.policy_decision =
                           st.tool_results["order_cancel"].policy_decision])
    ELSE Ok([st EXCEPT !.policy_decision = None])

policy_guard_node(st) ==
    IF "order_cancel" \in DOMAIN st.tool_results
    THEN Ok([st EXCEPT !.policy_decision =
                           st.tool_results["order_cancel"].policy_decision])
    ELSE IF ~IsText(st.user_input) THEN Raised("AttributeError")
    ELSE IF InText(st.user_input, s_discount) /\ InText(st.user_input, s_code)
    THEN Ok([st EXCEPT !.policy_decision = DiscountRefusal])
    ELSE Ok([st EXCEPT !.policy_decision = None])

-----------------------------------------------------------------------------
(* The responder.  A message is the sequence of its parts: each template   *)
(* of the code is a record naming the template and the values it shows.    *)

Message(part) == <<part>>
EmptyMessage == <<>>

\* dt.strftime("%B %d at %I:%M %p")
format_order_date(iso_date) ==
    [month |-> "September", day |-> iso_date.day,
     hour |-> IF iso_date.hh % 12 = 0 THEN 12 ELSE iso_date.hh % 12,
     minute |-> iso_date.mm,
     meridiem |-> IF iso_date.hh < 12 THEN "AM" ELSE "PM"]

generate_product_response(tools_called, tool_results) ==
    LET products == tool_results["product_search"]
        listing ==
            IF "product_search" \notin DOMAIN tool_results THEN <<>>
            ELSE IF products # <<>>
            THEN <<[part |-> "found", count |-> Len(products)]>>
                 \o [i \in DOMAIN products |->
                        [part |-> "product_line", position |-> i,
                         title |-> products[i].title, price |-> products[i].price,
                         color |-> products[i].color, sizes |-> products[i].sizes]]
            ELSE <<[part |-> "no_products"]>>
        size_line ==
            IF "size_recommender" \in DOMAIN tool_results
            THEN <<[part |-> "size_recommendation",
                    size |-> tool_results["size_recommender"].recommended_size,
                    rationale |-> tool_results["size_recommender"].rationale]>>
            ELSE <<>>
        eta_line ==
            IF "eta" \in DOMAIN tool_results
            THEN <<[part |-> "shipping", zip |-> tool_results["eta"].zip,
                    eta_days |-> tool_results["eta"].eta_days]>>
            ELSE <<>>
    IN  listing \o size_line \o eta_line \o <<[part |-> "more_details"]>>

OrderNotFoundMessage == Message([part |-> "order_not_found"])

\* one line of items_text; products is what load_products() returned
ItemLine(item, products) ==
    LET hits == {i \in DOMAIN products : products[i].id = item.id}
    IN  IF hits # {}
        THEN [known |-> TRUE, title |-> products[Min(hits)].title, size |-> item.size]
        ELSE [known |-> FALSE, id |-> item.id, size |-> item.size]

\* products_load: what each load_products() of the item loop did
generate_order_response(tools_called, tool_results, policy_decision, products_load) ==
    IF "order_lookup" \notin DOMAIN tool_results
    THEN [raised |-> FALSE, message |-> OrderNotFoundMessage]
    ELSE
    LET order == tool_results["order_lookup"]
    IN  IF order = None
        THEN [raised |-> FALSE, message |-> OrderNotFoundMessage]
        ELSE IF order.items # <<>> /\ ~products_load.ok
        THEN [raised |-> TRUE]
        ELSE
        LET items_text == [i \in DOMAIN order.items |->
                              ItemLine(order.items[i], products_load.data)]
        IN  IF "order_cancel" \in DOMAIN tool_results
            THEN LET cancel_result == tool_results["order_cancel"]
                 IN  IF cancel_result.success
                     THEN [raised |-> FALSE, message |-> Message(
                              [part |-> "cancel_confirmed",
                               order_id |-> order.order_id,
                               items |-> items_text,
                               placed |-> format_order_date(order.created_at),
                               refund |-> IF "refund_info" \in DOMAIN cancel_result
                                          THEN cancel_result.refund_info
                                          ELSE "Full refund will be processed within 3-5 business days to your original payment method."])]
                     ELSE [raised |-> FALSE, message |-> Message(
                              [part |-> "cancel_blocked",
                               order_id |-> order.order_id,
                               reason |-> cancel_result.reason,
                               alternatives |-> IF "alternatives" \in DOMAIN cancel_result
                                                THEN cancel_result.alternatives
                                                ELSE <<>>])]
            ELSE [raised |-> FALSE, message |-> Message(
                     [part |-> "order_details",
                      order_id |-> order.order_id,
                      items |-> items_text,
                      placed |-> format_order_date(order.created_at),
                      email |-> order.email])]

\* a composer that answers every "other" request with the summary
generate_other_response_SummaryOnly(user_input, policy_decision) ==
    Message([part |-> "capabilities"])

generate_other_response(user_input, policy_decision) ==
    IF /\ policy_decision # None
       /\ "refuse" \in DOMAIN policy_decision
       /\ policy_decision.refuse
       /\ InText(user_input, s_discount)
    THEN Message([part |-> "discount_refusal",
                  alternatives |-> IF "alternatives" \in DOMAIN policy_decision
                                   THEN policy_decision.alternatives
                                   ELSE <<>>])
    ELSE Message([part |-> "capabilities"])

\* a composer that shows the refusal whatever the intent
generate_customer_response_RefusalShown(st, products_load) ==
    IF st.policy_decision # None /\ "refuse" \in DOMAIN st.policy_decision
    THEN [raised |-> FALSE,
          message |-> generate_other_response(st.user_input, st.policy_decision)]
    ELSE IF st.intent = s_product_assist
    THEN [raised |-> FALSE,
          message |-> generate_product_response(st.tools_called, st.tool_results)]
    ELSE IF st.intent = s_order_help
    THEN generate_order_response(st.tools_called, st.tool_results,
                                 st.policy_decision, products_load)
    ELSE [raised |-> FALSE,
          message |-> generate_other_response(st.user_input, st.policy_decision)]

generate_customer_response(st, products_load) ==
    IF st.intent = s_product_assist
    THEN [raised |-> FALSE,
          message |-> generate_product_response(st.tools_called, st.tool_results)]
    ELSE IF st.intent = s_order_help
    THEN generate_order_response(st.tools_called, st.tool_results,
                                 st.policy_decision, products_load)
    ELSE IF st.intent = s_other
    THEN [raised |-> FALSE,
          message |-> generate_other_response(st.user_input, st.policy_decision)]
    ELSE [raised |-> FALSE, message |-> Message([part |-> "rephrase"])]

ResponderApology == Message([part |-> "responder_apology"])

\* a responder without the try: what the composer raises leaves the node
responder_node_Uncaught(st, products_load) ==
    LET generated == generate_customer_response(st, products_load)
    IN  IF generated.raised THEN Raised("Exception")
        ELSE Ok([st EXCEPT !.final_message = generated.message,
                           !.json_trace =
                               [intent |-> st.intent,
                                tools_called |-> st.tools_called,
                                evidence |-> st.evidence,
                                policy_decision |-> st.policy_decision,
                                final_message |-> generated.message]])

responder_node(st, products_load) ==
    LET generated == generate_customer_response(st, products_load)
        final_message == IF generated.raised THEN ResponderApology
                         ELSE generated.message
        json_trace == [intent |-> st.intent,
                       tools_called |-> st.tools_called,
                       evidence |-> st.evidence,
                       policy_decision |-> st.policy_decision,
                       final_message |-> final_message]
    IN  Ok([st EXCEPT !.final_message = final_message,
                      !.json_trace = json_trace])

-----------------------------------------------------------------------------
(* EcommerceAgent.process_message *)

InitialState(user_input) ==
    [user_input |-> user_input,
     intent |-> <<>>,
     tools_called |-> <<>>,
     tool_results |-> EmptyDict,
     evidence |-> <<>>,
     policy_decision |-> None,
     final_message |-> EmptyMessage,
     json_trace |-> EmptyDict]

AgentApology == Message([part |-> "agent_apology"])

\* the except branch: the error response
ErrorTrace(exc) ==
    [intent |-> s_error,
     tools_called |-> <<>>,
     evidence |-> <<>>,
     policy_decision |-> [error |-> exc],
     final_message |-> AgentApology]

ErrorResponse(exc) ==
    [json_trace |-> ErrorTrace(exc), final_message |-> ErrorTrace(exc).final_message]

\* the return of the try branch
FinalResponse(final_state) ==
    [json_trace |-> final_state.json_trace,
     final_message |-> final_state.final_message]

-----------------------------------------------------------------------------
(* The data files and the inputs *)

Product(id, title, price, tags) ==
    [id |-> id, title |-> title, price |-> price, tags |-> tags,
     sizes |-> <<"M", "L">>, color |-> "Blue"]

Order(order_id, email, created_at, items) ==
    [order_id |-> order_id, email |-> email, created_at |-> created_at,
     items |-> items]

t_midi_dress == <<"M", "i", "d", "i", " ", "D", "r", "e", "s", "s">>
t_slip_dress == <<"S", "l", "i", "p", " ", "D", "r", "e", "s", "s">>
t_maxi_dress == <<"M", "a", "x", "i", " ", "D", "r", "e", "s", "s">>
t_gown == <<"G", "o", "w", "n">>

P_midi == Product("P1", t_midi_dress, 110, <<s_Wedding, s_midi>>)
P_slip == Product("P2", t_slip_dress, 95, <<s_wedding, s_party>>)
P_maxi == Product("P3", t_maxi_dress, 150, <<s_party>>)
P_gown == Product("P4", t_gown, 120, <<s_wedding>>)

\* the data the workflow runs on: A1003 was placed 35 minutes before
\* MockTimestamp, A1002 the day before
DefaultProducts == <<P_midi, P_slip, P_maxi>>
DefaultOrders ==
    << Order(w_A1003, mira_email, Timestamp(7, 11, 55, 0),
             <<[id |-> "P1", size |-> "M"]>>),
       Order(w_A1002, alex_email, Timestamp(6, 13, 5, 0),
             <<[id |-> "P2", size |-> "L"], [id |-> "P9", size |-> "M"]>>) >>

r_Order_Help == <<" ", "O", "r", "d", "e", "r", "_", "H", "e", "l", "p", "\n">>
r_maybe == <<"m", "a", "y", "b", "e">>

\* what the language model may do: fail, or answer with an intent (as it
\* is, or in other case and with blanks around it) or with something else
LlmOutcomes ==
    {LlmRaised} \cup
    {LlmText(t) : t \in {s_product_assist, r_Order_Help, s_other, r_maybe}}

LoadOutcomes(file) == {Loaded(file), LoadError}

-----------------------------------------------------------------------------
(* The state *)

VARIABLES
    products_file,  \* data/products.json
    orders_file,    \* data/orders.json
    pc,             \* where process_message is
    state,          \* the AgentState passed between the nodes
    llm,            \* what the language model did for this message
    tool_errors,    \* the tools whose "... error" line was printed
    agent_error,    \* the exception process_message caught, or None
    response,       \* what process_message returned
    tool_call       \* the last direct call of a tool, with what it returned

vars == <<products_file, orders_file, pc, state, llm, tool_errors, agent_error,
          response, tool_call>>

Idle ==
    /\ pc = "idle"
    /\ state = InitialState(None)
    /\ llm = None
    /\ tool_errors = {}
    /\ agent_error = None
    /\ response = None
    /\ tool_call = None

Init ==
    /\ products_file = DefaultProducts
    /\ orders_file = DefaultOrders
    /\ Idle

\* process_message up to graph.invoke: the print of the message stands
\* before the try, so what it raises leaves process_message
ProcessMessageOf(inputs) ==
    /\ pc = "idle"
    /\ \E user_input \in inputs :
           /\ state' = InitialState(user_input)
           /\ pc' = IF Printable(user_input) THEN "router" ELSE "raised"
    /\ llm' = None
    /\ tool_errors' = {}
    /\ UNCHANGED <<products_file, orders_file, agent_error, response, tool_call>>

ProcessMessage == ProcessMessageOf(UserInputs)

\* a node ran: the next node, or the except branch of process_message
Step(outcome, next) ==
    IF outcome.raised
    THEN /\ pc' = "done"
         /\ agent_error' = [error |-> outcome.error]
         /\ response' = ErrorResponse(outcome.error)
         /\ UNCHANGED state
    ELSE /\ pc' = next
         /\ state' = outcome.state
         /\ UNCHANGED <<agent_error, response>>

RouterNode ==
    /\ pc = "router"
    /\ \E outcome \in LlmOutcomes :
           /\ llm' = outcome
           /\ Step(router_node(state, outcome), "tool_selector")
    /\ UNCHANGED <<products_file, orders_file, tool_errors, tool_call>>

\* the except branches of tool_selector_node that ran
ToolErrors(st, products_load, lookup_load, cancel_load) ==
    IF ~IsText(st.user_input) THEN {}
    ELSE IF st.intent = s_product_assist
    THEN IF products_load.ok THEN {} ELSE {"product_search"}
    ELSE IF st.intent = s_order_help
    THEN IF \/ Search(st.user_input, OrderIdIn) = None
            \/ Search(st.user_input, EmailIn) = None
         THEN {}
         ELSE IF ~lookup_load.ok THEN {"order_lookup"}
         ELSE IF /\ order_lookup(lookup_load.data,
                                 Search(st.user_input, OrderIdIn).group,
                                 Search(st.user_input, EmailIn).group) # None
                 /\ IsCancelRequest(st.user_input)
                 /\ ~cancel_load.ok
         THEN {"order_cancel"}
         ELSE {}
    ELSE {}

Clocks == {Timestamp(7, 12, 30, 0), Timestamp(7, 14, 0, 0)}

ToolSelectorNode ==
    /\ pc = "tool_selector"
    /\ \E products_load \in LoadOutcomes(products_file),
          lookup_load \in LoadOutcomes(orders_file),
          cancel_load \in LoadOutcomes(orders_file),
          clock \in Clocks :
           /\ Step(tool_selector_node(state, products_load, lookup_load,
                                      cancel_load, clock),
                   "policy_guard")
           /\ tool_errors' = ToolErrors(state, products_load, lookup_load,
                                        cancel_load)
    /\ UNCHANGED <<products_file, orders_file, llm, tool_call>>

\* a graph whose guard is wired to END
PolicyGuardNode_ToEnd ==
    /\ pc = "policy_guard"
    /\ Step(policy_guard_node(state), "end")
    /\ UNCHANGED <<products_file, orders_file, llm, tool_errors, tool_call>>

PolicyGuardNode ==
    /\ pc = "policy_guard"
    /\ Step(policy_guard_node(state), "responder")
    /\ UNCHANGED <<products_file, orders_file, llm, tool_errors, tool_call>>

ResponderNode ==
    /\ pc = "responder"
    /\ \E products_load \in LoadOutcomes(products_file) :
           Step(responder_node(state, products_load), "end")
    /\ UNCHANGED <<products_file, orders_file, llm, tool_errors, tool_call>>

\* graph.invoke returned: process_message returns the pair
Return ==
    /\ pc = "end"
    /\ pc' = "done"
    /\ response' = FinalResponse(state)
    /\ UNCHANGED <<products_file, orders_file, state, llm, tool_errors,
                   agent_error, tool_call>>

Next ==
    \/ ProcessMessage
    \/ RouterNode
    \/ ToolSelectorNode
    \/ PolicyGuardNode
    \/ ResponderNode
    \/ Return

Spec == Init /\ [][Next]_vars

\* The prompts of tests/run_tests.py in the words of the vocabulary (a
\* product request, a cancellation in time, one too late, a discount
\* code), the empty message, a non-string and an unprintable string
SamplePrompts ==
    {Text(prompt) : prompt \in TestPrompts}
    \cup {Text(<<w_Cancel, w_A1003, w_Mira_email>>),
          Text(<<w_Cancel, w_A1002, alex_email>>),
          Text(<<w_discount_code>>), Text(<<>>), Text(<<w_surrogate>>), None}

ProcessSample == ProcessMessageOf(SamplePrompts)

SampleNext ==
    \/ ProcessSample
    \/ RouterNode
    \/ ToolSelectorNode
    \/ PolicyGuardNode
    \/ ResponderNode
    \/ Return

\* graph.invoke runs the nodes one after the other in the caller's thread
\* and each node returns: a request that can take a step takes it
FairSpec == Init /\ [][SampleNext]_vars /\ WF_vars(SampleNext)

-----------------------------------------------------------------------------
(* The tools called directly, as src/src/__init__.py exports them, on      *)
(* data files drawn from small pools.                                      *)

MaxCatalog == 3
MaxOrders == 2

ProductPool == {P_midi, P_slip, P_maxi, P_gown}

OrderPool ==
    { Order(w_A1003, mira_email, Timestamp(7, 12, 0, 0), <<[id |-> "P1", size |-> "M"]>>),
      Order(w_A1003, alex_email, Timestamp(7, 11, 0, 0), <<>>),
      Order(w_A1002, w_Mira_email, Timestamp(6, 12, 0, 0), <<>>),
      Order(w_A1002, alex_email, Timestamp(7, 12, 0, 0), <<>>) }

Catalogs == SeqUpTo(ProductPool, MaxCatalog)
OrderStores == SeqUpTo(OrderPool, MaxOrders)

q_wedding_midi == <<"w", "e", "d", "d", "i", "n", "g", " ", "m", "i", "d", "i">>
s_boho == <<"b", "o", "h", "o">>

SearchQueries == {s_dress, s_Wedding, s_midi, q_wedding_midi, s_boho}
SearchPrices == {-1, 0, 95, 110, 1000}
SearchTags == {<<>>, <<s_Wedding>>, <<s_party, s_midi>>}

LookupIds == {w_A1003, w_A1002, w_A9999}
LookupEmails == {mira_email, w_Mira_email, alex_email}

EvaluationTimes ==
    { Timestamp(7, 11, 30, 0), Timestamp(7, 12, 0, 0), Timestamp(7, 12, 0, 1),
      Timestamp(7, 12, 35, 0), Timestamp(7, 12, 59, 59), Timestamp(7, 13, 0, 0),
      Timestamp(7, 13, 0, 1), Timestamp(7, 14, 0, 0) }

\* the preferences given to size_recommender: up to MaxPreferenceWords
\* words, joined by blanks
MaxPreferenceWords == 2
PreferenceWords == {w_M_L, s_loose, s_comfortable, s_fitted, s_tight, w_hello}
SizePreferences ==
    {JoinSpace(words) : words \in SeqUpTo(PreferenceWords, MaxPreferenceWords)}

InitTools ==
    /\ \/ products_file \in Catalogs /\ orders_file = DefaultOrders
       \/ products_file = DefaultProducts /\ orders_file \in OrderStores
    /\ Idle

\* The tools keep nothing between calls: a behaviour makes one call.
\* A call that returned result, or one that raised
Returned(tool, args, result) ==
    [tool |-> tool, args |-> args, raised |-> FALSE, result |-> result]
Failed(tool, args) == [tool |-> tool, args |-> args, raised |-> TRUE]

CallProductSearch ==
    /\ tool_call = None
    /\ \E query \in SearchQueries, price_max \in SearchPrices, tags \in SearchTags,
          load \in LoadOutcomes(products_file) :
           LET args == [query |-> query, price_max |-> price_max, tags |-> tags]
           IN  tool_call' =
                   IF load.ok
                   THEN Returned("product_search", args,
                                 product_search(load.data, query, price_max, tags))
                   ELSE Failed("product_search", args)
    /\ UNCHANGED <<products_file, orders_file, pc, state, llm, tool_errors,
                   agent_error, response>>

CallOrderLookup ==
    /\ tool_call = None
    /\ \E order_id \in LookupIds, email \in LookupEmails,
          load \in LoadOutcomes(orders_file) :
           LET args == [order_id |-> order_id, email |-> email]
           IN  tool_call' =
                   IF load.ok
                   THEN Returned("order_lookup", args,
                                 order_lookup(load.data, order_id, email))
                   ELSE Failed("order_lookup", args)
    /\ UNCHANGED <<products_file, orders_file, pc, state, llm, tool_errors,
                   agent_error, response>>

CallOrderCancel ==
    /\ tool_call = None
    /\ \E order_id \in LookupIds,
          current_timestamp \in EvaluationTimes \cup {None},
          clock \in Clocks,
          load \in LoadOutcomes(orders_file) :
           LET args == [order_id |-> order_id,
                        current_timestamp |-> current_timestamp,
                        clock |-> clock]
           IN  tool_call' =
                   IF load.ok
                   THEN Returned("order_cancel", args,
                                 order_cancel(load.data, order_id,
                                              current_timestamp, clock))
                   ELSE Failed("order_cancel", args)
    /\ UNCHANGED <<products_file, orders_file, pc, state, llm, tool_errors,
                   agent_error, response>>

\* the texts whose price ceiling is read: up to MaxPriceWords words
MaxPriceWords == 4
w_Under == <<"U", "n", "d", "e", "r">>
w_1_200 == <<"$", "1", ",", "2", "0", "0">>
PriceWords == {w_Under, s_max, w_100, w_1_200, w_hello}
PriceTexts == SeqUpTo(PriceWords, MaxPriceWords)

\* the price loop of tool_selector_node on one text
ReadPriceCeiling ==
    /\ tool_call = None
    /\ \E words \in PriceTexts :
           tool_call' = Returned("price_max", [words |-> words],
                                 PriceMax([i \in DOMAIN words |-> Lower(words[i])]))
    /\ UNCHANGED <<products_file, orders_file, pc, state, llm, tool_errors,
                   agent_error, response>>

CallSizeRecommender ==
    /\ tool_call = None
    /\ \E preference \in SizePreferences :
           tool_call' = Returned("size_recommender", [preference |-> preference],
                                 size_recommender(preference))
    /\ UNCHANGED <<products_file, orders_file, pc, state, llm, tool_errors,
                   agent_error, response>>

NextTools ==
    \/ ReadPriceCeiling
    \/ CallProductSearch
    \/ CallSizeRecommender
    \/ CallOrderLookup
    \/ CallOrderCancel

ToolSpec == InitTools /\ [][NextTools]_vars

-----------------------------------------------------------------------------
(* Properties of process_message (checked under Spec)                      *)

\* the dispatcher ran on a string
Dispatched ==
    /\ pc \in {"policy_guard", "responder", "end", "done"}
    /\ IsText(state.user_input)

\* the policy guard ran
Guarded ==
    \/ pc \in {"responder", "end"}
    \/ pc = "done" /\ agent_error = None

\* C1: process_message never raises to its caller: whatever the message,
\* the language model and the data files do, a request that ends has
\* returned a pair {json_trace, final_message}, and when an exception left
\* the graph the pair is the error trace (intent "error", no tools, no
\* evidence) with the fixed apology.
C1_AlwaysReturnsPair ==
    /\ pc # "raised"
    /\ pc = "done" =>
        /\ DOMAIN response = {"json_trace", "final_message"}
        /\ response.final_message # EmptyMessage
        /\ agent_error # None =>
              /\ response.json_trace.intent = s_error
              /\ response.json_trace.tools_called = <<>>
              /\ response.json_trace.evidence = <<>>
              /\ response.json_trace.final_message = AgentApology
              /\ response.final_message = AgentApology

\* C6: when the language model fails or answers outside the three intents,
\* the intent is the keyword fallback: order_help if the text holds cancel,
\* order, refund or return; otherwise product_assist if it holds dress,
\* product, size, wedding, find or recommend; otherwise other.
C6_ClassifierFailed ==
    /\ llm # None
    /\ \/ llm.raised
       \/ Strip(Lower(llm.text)) \notin {s_product_assist, s_order_help, s_other}

C6_KeywordFallback ==
    (pc # "idle" /\ pc # "router" /\ C6_ClassifierFailed /\ IsText(state.user_input)) =>
        LET Mentions(keywords) == \E k \in keywords : InText(state.user_input, k)
        IN  state.intent =
                IF Mentions({s_cancel, s_order, s_refund, s_return})
                THEN s_order_help
                ELSE IF Mentions({s_dress, s_product, s_size, s_wedding,
                                  s_find, s_recommend})
                THEN s_product_assist
                ELSE s_other

C6_Witness ==
    /\ pc = "tool_selector"
    /\ llm # None
    /\ llm.raised
    /\ IsText(state.user_input)
    /\ InText(state.user_input, s_cancel)
    /\ InText(state.user_input, s_dress)
    /\ state.intent = s_order_help

\* the order-id and the email patterns find a token in the text
C7_IdPresent ==
    \E i \in DOMAIN state.user_input.words :
        OrderIdIn[state.user_input.words[i]] # None
C7_EmailPresent ==
    \E i \in DOMAIN state.user_input.words :
        EmailIn[state.user_input.words[i]] # None

\* C7: for order_help, order_lookup is called only if the text holds both
\* an order id and an email (otherwise nothing is called or recorded), and
\* order_cancel only if the lookup found an order and the text holds
\* "cancel"; order_cancel is recorded only after order_lookup.
C7_OrderDispatch ==
    (Dispatched /\ state.intent = s_order_help) =>
        LET tools == state.tools_called
        IN  /\ "order_lookup" \in Range(tools) => C7_IdPresent /\ C7_EmailPresent
            /\ ~(C7_IdPresent /\ C7_EmailPresent) =>
                   /\ tools = <<>>
                   /\ DOMAIN state.tool_results = {}
                   /\ state.evidence = <<>>
            /\ "order_cancel" \in Range(tools) =>
                   /\ state.tool_results["order_lookup"] # None
                   /\ InText(state.user_input, s_cancel)
                   /\ \E i, j \in DOMAIN tools :
                          i < j /\ tools[i] = "order_lookup" /\ tools[j] = "order_cancel"

C7_Witness ==
    /\ pc = "done"
    /\ state.intent = s_order_help
    /\ response.json_trace.tools_called = <<"order_lookup", "order_cancel">>

\* C8: for product_assist, product_search is recorded for every request,
\* size_recommender only if the text holds "size", "m/l" or "between", eta
\* only if a 5-or-6-digit token is found, in that order.
C8_ProductDispatch ==
    (Dispatched /\ state.intent = s_product_assist) =>
        LET tools == state.tools_called
            order == <<"product_search", "size_recommender", "eta">>
        IN  /\ "product_search" \in Range(tools)
            /\ "size_recommender" \in Range(tools) =>
                   \E k \in {s_size, s_m_l, s_between} : InText(state.user_input, k)
            /\ "eta" \in Range(tools) =>
                   \E i \in DOMAIN state.user_input.words :
                       ZipIn[state.user_input.words[i]] # None
            /\ \E keep \in SUBSET (1..3) :
                   tools = SelectSeq(order, LAMBDA t : \E i \in keep : order[i] = t)

\* a product of the catalog under the ceiling whose title or one of whose
\* tags holds "wedding" or "midi"
C12_Matching(product, ceiling) ==
    /\ product.price <= ceiling
    /\ \E term \in {s_wedding, s_midi} :
           \/ Contains(Lower(product.title), term)
           \/ \E i \in DOMAIN product.tags : Contains(Lower(product.tags[i]), term)

\* C12: a product_assist request whose text holds "wedding" and "midi",
\* with the ceiling P read from the text, shows evidence, each item priced
\* up to P, whenever a product of the catalog matches; stated for the
\* requests whose catalog was read.
C12_WeddingMidiEvidence ==
    (/\ Dispatched
     /\ state.intent = s_product_assist
     /\ tool_errors = {}
     /\ InText(state.user_input, s_wedding)
     /\ InText(state.user_input, s_midi)) =>
        LET ceiling == PriceMax(LowerWords(state.user_input))
        IN  (\E i \in DOMAIN products_file :
                 C12_Matching(products_file[i], ceiling)) =>
                /\ state.evidence # <<>>
                /\ \A i \in DOMAIN state.evidence :
                       state.evidence[i].price <= ceiling

\* the templates of generate_product_response and generate_order_response
C13_ProductOrderParts ==
    {"found", "product_line", "no_products", "size_recommendation", "shipping",
     "more_details", "order_not_found", "cancel_confirmed", "cancel_blocked",
     "order_details"}

\* C13: a request answered with intent other whose text holds "discount"
\* and "code" carries refuse = true and the discount refusal with one
\* bullet per alternative and no product or order template; every other
\* request answered with intent other gets the capability summary.
C13_OtherResponse ==
    (pc = "done" /\ agent_error = None /\ response.json_trace.intent = s_other) =>
        IF InText(state.user_input, s_discount) /\ InText(state.user_input, s_code)
        THEN /\ response.json_trace.policy_decision.refuse = TRUE
             /\ Len(response.final_message) = 1
             /\ response.final_message[1].part = "discount_refusal"
             /\ response.final_message[1].alternatives =
                    response.json_trace.policy_decision.alternatives
             /\ Len(response.final_message[1].alternatives) = 3
             /\ \A i \in DOMAIN response.final_message :
                    response.final_message[i].part \notin C13_ProductOrderParts
        ELSE response.final_message = Message([part |-> "capabilities"])

C13_Witness ==
    /\ pc = "done"
    /\ response.json_trace.intent = s_other
    /\ InText(state.user_input, s_discount)
    /\ InText(state.user_input, s_code)
    /\ response.final_message[1].part = "discount_refusal"

\* C14: every returned trace has exactly the fields intent, tools_called,
\* evidence, policy_decision and final_message, the two lists being lists;
\* its intent is product_assist, order_help or other, or "error" exactly in
\* the degraded trace, so the "please rephrase" message never appears; its
\* final_message is not empty and is the final_message returned beside it.
C14_TraceWellFormed ==
    pc = "done" =>
        LET trace == response.json_trace
        IN  /\ DOMAIN trace = {"intent", "tools_called", "evidence",
                               "policy_decision", "final_message"}
            /\ DOMAIN trace.tools_called = 1..Len(trace.tools_called)
            /\ DOMAIN trace.evidence = 1..Len(trace.evidence)
            /\ trace.intent \in {s_product_assist, s_order_help, s_other, s_error}
            /\ trace.intent = s_error <=> agent_error # None
            /\ trace.final_message # EmptyMessage
            /\ trace.final_message = response.final_message
            /\ \A i \in DOMAIN trace.final_message :
                   trace.final_message[i].part # "rephrase"

C14_Witness ==
    /\ pc = "done"
    /\ agent_error = None
    /\ llm = LlmText(r_maybe)
    /\ response.json_trace.intent = s_other
    /\ response.json_trace.final_message = response.final_message

\* the order in which tool_selector_node invokes the tools
C15_InvocationOrder ==
    <<"product_search", "size_recommender", "eta", "order_lookup", "order_cancel">>

\* C15: tools_called is the log of the invocations: every tool the
\* dispatcher invoked, the ones that failed included, is in tools_called,
\* once and in invocation order, and the trace shows the same log.
C15_CallLogComplete ==
    Dispatched =>
        LET tools == state.tools_called
        IN  /\ \A tool \in tool_errors : tool \in Range(tools)
            /\ \A i, j \in DOMAIN tools :
                   i < j => \E a, b \in DOMAIN C15_InvocationOrder :
                                /\ a < b
                                /\ C15_InvocationOrder[a] = tools[i]
                                /\ C15_InvocationOrder[b] = tools[j]
            /\ (pc = "done" /\ agent_error = None) =>
                   response.json_trace.tools_called = tools

\* C16: when order_cancel ran, the policy decision of the trace is the
\* decision of order_cancel as it is, and it carries the elapsed minutes
\* and, if allowed, the refund note, if blocked, the reason and the
\* alternatives.
C16_DecisionVerbatim ==
    (Guarded /\ "order_cancel" \in Range(state.tools_called)) =>
        LET decision == state.policy_decision
        IN  /\ decision = state.tool_results["order_cancel"].policy_decision
            /\ pc = "done" => response.json_trace.policy_decision = decision
            /\ "reason" \in DOMAIN decision
            /\ "minutes" \in DOMAIN decision.reason
            /\ IF decision.cancel_allowed
               THEN "refund_info" \in DOMAIN decision
               ELSE "alternatives" \in DOMAIN decision

\* C18: the message composed for order_help follows the outcome: the
\* "couldn't find" message if no order was found; the confirmation exactly
\* if order_cancel ran and succeeded; the rejection, with its reason and a
\* bullet per alternative, exactly if it ran and was blocked; the plain
\* order details exactly if an order was found and no cancellation was
\* attempted; and no confirmation beside cancel_allowed = false.  Stated
\* for the requests whose composition did not fail.
C18_OrderMessage ==
    (/\ pc = "done"
     /\ agent_error = None
     /\ response.json_trace.intent = s_order_help
     /\ response.final_message # ResponderApology) =>
        LET results == state.tool_results
            found == /\ "order_lookup" \in DOMAIN results
                     /\ results["order_lookup"] # None
            ran == "order_cancel" \in DOMAIN results
            attempted == ran \/ "order_cancel" \in tool_errors
            message == response.final_message[1]
        IN  /\ Len(response.final_message) = 1
            /\ ~found => response.final_message = OrderNotFoundMessage
            /\ message.part = "cancel_confirmed" <=>
                   (ran /\ results["order_cancel"].success)
            /\ message.part = "cancel_blocked" <=>
                   (ran /\ ~results["order_cancel"].success)
            /\ message.part = "cancel_blocked" =>
                   /\ message.reason = results["order_cancel"].reason
                   /\ message.alternatives = results["order_cancel"].alternatives
            /\ message.part = "order_details" <=> (found /\ ~attempted)
            /\ message.part = "cancel_confirmed" =>
                   response.json_trace.policy_decision.cancel_allowed

\* C19: the responder never fails the request: whatever the composer
\* does, the graph goes on to its end with a trace whose intent,
\* tools_called, evidence and policy_decision are the ones the earlier
\* stages computed and whose final_message is what the composer returned
\* or, when it raised, the responder's apology; the pair returned is that
\* trace and that message, not the degraded error trace.
C19_ResponderFailureKept ==
    [][/\ pc = "responder" =>
              /\ pc' = "end"
              /\ agent_error' = None
              /\ state'.json_trace.intent = state.intent
              /\ state'.json_trace.tools_called = state.tools_called
              /\ state'.json_trace.evidence = state.evidence
              /\ state'.json_trace.policy_decision = state.policy_decision
              /\ state'.json_trace.final_message = state'.final_message
              /\ \E load \in LoadOutcomes(products_file) :
                     LET generated == generate_customer_response(state, load)
                     IN  state'.final_message =
                             IF generated.raised THEN ResponderApology
                             ELSE generated.message
       /\ pc = "end" =>
              /\ pc' = "done"
              /\ response' = [json_trace |-> state.json_trace,
                              final_message |-> state.final_message]]_vars

C19_Witness ==
    /\ pc = "done"
    /\ agent_error = None
    /\ response.final_message = ResponderApology
    /\ response.json_trace.final_message = ResponderApology
    /\ response.json_trace.intent = s_order_help
    /\ response.json_trace.tools_called = <<"order_lookup", "order_cancel">>
    /\ response.json_trace.policy_decision = state.policy_decision

\* a stage was cut short by an exception that left the graph
C20_Aborted == pc' = "done" /\ agent_error' # None

\* the steps of a request: each stage hands over to the next one and
\* writes its own fields of the state only
C20_Step ==
    /\ pc = "idle" => pc' \in {"router", "raised"}
    /\ pc = "router" =>
           \/ C20_Aborted
           \/ /\ pc' = "tool_selector"
              /\ state' = [state EXCEPT !.intent = state'.intent]
    /\ pc = "tool_selector" =>
           \/ C20_Aborted
           \/ /\ pc' = "policy_guard"
              /\ state' = [state EXCEPT !.tools_called = state'.tools_called,
                                        !.tool_results = state'.tool_results,
                                        !.evidence = state'.evidence]
    /\ pc = "policy_guard" =>
           \/ C20_Aborted
           \/ /\ pc' = "responder"
              /\ state' = [state EXCEPT !.policy_decision = state'.policy_decision]
    /\ pc = "responder" =>
           \/ C20_Aborted
           \/ /\ pc' = "end"
              /\ state' = [state EXCEPT !.final_message = state'.final_message,
                                        !.json_trace = state'.json_trace]
    /\ pc = "end" => pc' = "done" /\ state' = state
    /\ pc \in {"done", "raised"} => pc' = pc

\* what each stage finds when it starts
C20_StageState ==
    /\ pc = "router" => state = InitialState(state.user_input)
    /\ pc \in {"tool_selector", "policy_guard", "responder", "end"} =>
           state.intent \in ValidIntents
    /\ pc \in {"router", "tool_selector"} =>
           /\ state.tools_called = <<>>
           /\ state.tool_results = EmptyDict
    /\ pc \in {"router", "tool_selector", "policy_guard"} =>
           state.policy_decision = None
    /\ pc \in {"router", "tool_selector", "policy_guard", "responder"} =>
           /\ state.json_trace = EmptyDict
           /\ state.final_message = EmptyMessage
    /\ pc = "end" =>
           /\ state.json_trace # EmptyDict
           /\ state.json_trace.policy_decision = state.policy_decision
           /\ state.json_trace.tools_called = state.tools_called

\* C20: a request runs classifier, dispatcher, guard and composer once
\* each in this order, each on what the stage before it left, and then
\* ends; the trace is built by the composer only and is returned as built.
\* A stage that lets an exception out ends the request at once.
C20_FixedOrder ==
    /\ [][C20_Step]_vars
    /\ []C20_StageState
    /\ [](pc = "router" => <>(pc = "done"))

C20_Witness ==
    /\ pc = "done"
    /\ agent_error = None
    /\ response.json_trace.intent = s_order_help
    /\ response.json_trace.tools_called = <<"order_lookup", "order_cancel">>
    /\ response.json_trace.policy_decision # None
    /\ response.json_trace = state.json_trace

\* C22: the evidence is what the tools of the request returned and nothing
\* else: for product_assist the summaries of the products product_search
\* returned, in its order, at most 2; for order_help one order summary if
\* order_lookup returned an order and nothing otherwise; for other nothing;
\* and the trace shows this evidence.
C22_EvidenceFromTools ==
    Dispatched =>
        LET results == state.tool_results
            products == IF "product_search" \in DOMAIN results
                        THEN results["product_search"] ELSE <<>>
            order == IF "order_lookup" \in DOMAIN results
                     THEN results["order_lookup"] ELSE None
        IN  /\ state.intent = s_product_assist =>
                   /\ Len(state.evidence) <= 2
                   /\ state.evidence =
                          [i \in DOMAIN products |->
                              [product_id |-> products[i].id,
                               title |-> products[i].title,
                               price |-> products[i].price,
                               sizes |-> products[i].sizes,
                               color |-> products[i].color]]
            /\ state.intent = s_order_help =>
                   state.evidence =
                       IF order = None THEN <<>>
                       ELSE <<[order_id |-> order.order_id,
                               email |-> order.email,
                               created_at |-> order.created_at,
                               items |-> order.items]>>
            /\ state.intent = s_other => state.evidence = <<>>
            /\ (pc = "done" /\ agent_error = None) =>
                   response.json_trace.evidence = state.evidence

C22_Witness ==
    /\ pc = "done"
    /\ agent_error = None
    /\ state.intent = s_product_assist
    /\ "product_search" \in DOMAIN state.tool_results
    /\ Len(state.tool_results["product_search"]) = 2
    /\ Len(response.json_trace.evidence) = 2
    /\ response.json_trace.evidence[1].product_id =
           state.tool_results["product_search"][1].id

\* C23: whenever order_cancel ran, order_lookup of the same request
\* returned an order whose id is the id in the text and whose email is the
\* email in the text but for case; that order is the one order_cancel finds
\* by id in the same order data, so the result is never "Order not found"
\* and is the decision computed for that order; the trace reports it.
C23_CancelOnlyVerified ==
    (Dispatched /\ "order_cancel" \in DOMAIN state.tool_results) =>
        LET order_id == Search(state.user_input, OrderIdIn).group
            email == Search(state.user_input, EmailIn).group
            result == state.tool_results["order_cancel"]
            ids == {i \in DOMAIN orders_file : orders_file[i].order_id = order_id}
        IN  /\ "order_lookup" \in DOMAIN state.tool_results
            /\ state.tool_results["order_lookup"] # None
            /\ LET order == state.tool_results["order_lookup"]
               IN  /\ order.order_id = order_id
                   /\ Lower(order.email) = Lower(email)
                   /\ ids # {}
                   /\ orders_file[Min(ids)] = order
                   /\ \A clock \in Clocks :
                          result = order_cancel(<<order>>, order_id,
                                                MockTimestamp, clock)
            /\ result # CancelNotFound
            /\ result.reason.text # "Order not found"
            /\ (pc = "done" /\ agent_error = None) =>
                   response.json_trace.policy_decision = result.policy_decision

C23_Witness ==
    /\ pc = "done"
    /\ agent_error = None
    /\ "order_cancel" \in DOMAIN state.tool_results
    /\ state.tool_results["order_lookup"].order_id = w_A1002
    /\ response.json_trace.policy_decision.cancel_allowed = FALSE
    /\ response.json_trace.policy_decision.reason.text = "Exceeds 60-minute limit"

\* a request answered as product_assist, or as order_help without a result
\* of order_cancel, whose text holds "discount" and "code"
C24_DiscountAsked ==
    /\ pc = "done"
    /\ agent_error = None
    /\ response.json_trace.intent \in {s_product_assist, s_order_help}
    /\ "order_cancel" \notin DOMAIN state.tool_results
    /\ InText(state.user_input, s_discount)
    /\ InText(state.user_input, s_code)

\* the parts of the product template, and of the order template when
\* order_cancel has no result
C24_TemplateParts ==
    IF response.json_trace.intent = s_product_assist
    THEN {"found", "product_line", "no_products", "size_recommendation",
          "shipping", "more_details"}
    ELSE {"order_not_found", "order_details"}

C9_PolicyPrecedence ==
    Guarded =>
        LET decision == state.policy_decision
        IN  IF "order_cancel" \in Range(state.tools_called)
            THEN /\ decision = state.tool_results["order_cancel"].policy_decision
                 /\ "cancel_allowed" \in DOMAIN decision
                 /\ "refuse" \notin DOMAIN decision
            ELSE IF InText(state.user_input, s_discount)
                    /\ InText(state.user_input, s_code)
            THEN /\ DOMAIN decision = {"refuse", "reason", "alternatives"}
                 /\ decision.refuse = TRUE
                 /\ Len(decision.alternatives) = 3
            ELSE decision = None

C9_Witness ==
    /\ Guarded
    /\ "order_cancel" \in Range(state.tools_called)
    /\ InText(state.user_input, s_discount)
    /\ InText(state.user_input, s_code)
    /\ "cancel_allowed" \in DOMAIN state.policy_decision

\* C10: a data file that cannot be read while a tool runs ends the request
\* with the error trace, not with an ordinary response.
C10_DataFailurePropagates ==
    (pc = "done" /\ tool_errors # {}) => response.json_trace.intent = s_error

\* the pair a run of the graph returns for this message, this answer of the
\* language model, these outcomes of the loads and this wall-clock time
C11_Run(user_input, outcome, products_load, lookup_load, cancel_load,
        responder_load, clock) ==
    LET routed == router_node(InitialState(user_input), outcome).state
        selected == tool_selector_node(routed, products_load, lookup_load,
                                       cancel_load, clock).state
        guarded == policy_guard_node(selected).state
    IN  FinalResponse(responder_node(guarded, responder_load).state)

\* C11: process_message is deterministic: the pair a request returned is
\* the pair a second run on the same text with the same answer of the
\* language model and the same data returns at any other wall-clock time;
\* with all data read, it is the only pair such a run returns.
C11_Deterministic ==
    (pc = "done" /\ agent_error = None) =>
        \A clock \in Clocks :
            IF tool_errors = {} /\ response.final_message # ResponderApology
            THEN response = C11_Run(state.user_input, llm,
                                    Loaded(products_file), Loaded(orders_file),
                                    Loaded(orders_file), Loaded(products_file),
                                    clock)
            ELSE \E products_load \in LoadOutcomes(products_file),
                    lookup_load \in LoadOutcomes(orders_file),
                    cancel_load \in LoadOutcomes(orders_file),
                    responder_load \in LoadOutcomes(products_file) :
                     response = C11_Run(state.user_input, llm, products_load,
                                        lookup_load, cancel_load, responder_load,
                                        clock)

C11_Witness ==
    /\ pc = "done"
    /\ agent_error = None
    /\ "order_cancel" \in Range(response.json_trace.tools_called)
    /\ response.json_trace.policy_decision.cancel_allowed

-----------------------------------------------------------------------------
(* Properties of the tools (checked under ToolSpec)                        *)

ReturnedFrom(tool) ==
    /\ tool_call # None
    /\ tool_call.tool = tool
    /\ ~tool_call.raised

\* order_cancel was called for an order of the store
C2_Existing ==
    /\ ReturnedFrom("order_cancel")
    /\ \E i \in DOMAIN orders_file :
           orders_file[i].order_id = tool_call.args.order_id

\* the time between the first such order's creation and the evaluation
C2_ElapsedSeconds ==
    LET k == Min({i \in DOMAIN orders_file :
                     orders_file[i].order_id = tool_call.args.order_id})
        created == orders_file[k].created_at
        at == IF tool_call.args.current_timestamp # None
              THEN tool_call.args.current_timestamp
              ELSE tool_call.args.clock
    IN  (at.day - created.day) * 86400 + (at.hh - created.hh) * 3600
        + (at.mm - created.mm) * 60 + (at.ss - created.ss)

\* C2: for an existing order, order_cancel succeeds exactly if at most 60
\* minutes (3600 seconds) passed between creation and evaluation.
C2_CancelWindow ==
    C2_Existing => (tool_call.result.success <=> C2_ElapsedSeconds <= 3600)

C2_Witness ==
    /\ C2_Existing
    /\ C2_ElapsedSeconds = 3600
    /\ tool_call.result.success

\* C3: in every result of order_cancel, success equals
\* policy_decision.cancel_allowed, refund_info comes only with success and
\* alternatives only with failure.
C3_OneOutcome ==
    ReturnedFrom("order_cancel") =>
        LET result == tool_call.result
        IN  /\ result.success \in BOOLEAN
            /\ result.success = result.policy_decision.cancel_allowed
            /\ "refund_info" \in DOMAIN result => result.success
            /\ "alternatives" \in DOMAIN result => ~result.success

C3_Witness ==
    /\ ReturnedFrom("order_cancel")
    /\ ~tool_call.result.success
    /\ "alternatives" \in DOMAIN tool_call.result

\* C4: product_search returns at most 2 products, each with a price up to
\* the ceiling: none for a negative ceiling.
C4_SearchBounded ==
    ReturnedFrom("product_search") =>
        LET result == tool_call.result
        IN  /\ Len(result) <= 2
            /\ \A i \in DOMAIN result : result[i].price <= tool_call.args.price_max
            /\ tool_call.args.price_max < 0 => result = <<>>

C4_Witness ==
    /\ ReturnedFrom("product_search")
    /\ Len(tool_call.result) = 2
    /\ Cardinality({i \in DOMAIN products_file :
                       /\ products_file[i].price <= tool_call.args.price_max
                       /\ Contains(Lower(products_file[i].title),
                                   Lower(tool_call.args.query))}) > 2

\* C21: the price ceiling is the integer in the token after the first
\* "under", "below" or "max", with "$" and "," removed; it is 1000 if there
\* is no such keyword, if the keyword is the last token, or if that token
\* is not an integer: a failed parse gives the default, not a value from
\* elsewhere in the text.
C21_PriceCeiling ==
    ReturnedFrom("price_max") =>
        LET words == [i \in DOMAIN tool_call.args.words |->
                         Lower(tool_call.args.words[i])]
            keywords == {i \in DOMAIN words : words[i] \in {s_under, s_below, s_max}}
            first == Min(keywords)
            token == RemoveChar(RemoveChar(words[first + 1], "$"), ",")
        IN  tool_call.result =
                IF keywords = {} THEN 1000
                ELSE IF first = Len(words) THEN 1000
                ELSE IF IntParses(token) THEN IntOf(token)
                ELSE 1000

\* C17: size_recommender takes the first rule that matches: "m/l" gives M
\* whatever else the text holds; otherwise "loose" or "comfortable" gives
\* L, also beside "fitted" or "tight"; otherwise "fitted" or "tight" gives
\* M; otherwise M by default.  The size is always M or L.
C17_SizePriority ==
    ReturnedFrom("size_recommender") =>
        LET preference == Lower(tool_call.args.preference)
            Has(term) == Contains(preference, term)
            result == tool_call.result
        IN  /\ result.recommended_size \in {"M", "L"}
            /\ IF Has(s_m_l)
               THEN /\ result.recommended_size = "M"
                    /\ result.rationale = "between M/L"
               ELSE IF Has(s_loose) \/ Has(s_comfortable)
               THEN /\ result.recommended_size = "L"
                    /\ result.rationale = "comfortable, loose fit"
               ELSE IF Has(s_fitted) \/ Has(s_tight)
               THEN /\ result.recommended_size = "M"
                    /\ result.rationale = "fitted look"
               ELSE /\ result.recommended_size = "M"
                    /\ result.rationale = "versatile middle option"

C17_Witness ==
    /\ ReturnedFrom("size_recommender")
    /\ Contains(Lower(tool_call.args.preference), s_m_l)
    /\ Contains(Lower(tool_call.args.preference), s_loose)
    /\ tool_call.result.recommended_size = "M"

C5_SameIgnoringCase(a, b) ==
    /\ Len(a) = Len(b)
    /\ \A i \in DOMAIN a : a[i] = b[i] \/ LowerChar(a[i]) = LowerChar(b[i])

\* C5: order_lookup returns the first order of the store with the given id
\* and with the given email up to letter case, and None if there is none.
C5_LookupMatches ==
    ReturnedFrom("order_lookup") =>
        LET matching == {i \in DOMAIN orders_file :
                            /\ orders_file[i].order_id = tool_call.args.order_id
                            /\ C5_SameIgnoringCase(orders_file[i].email,
                                                   tool_call.args.email)}
        IN  IF matching = {} THEN tool_call.result = None
            ELSE tool_call.result = orders_file[Min(matching)]

C5_Witness ==
    /\ ReturnedFrom("order_lookup")
    /\ tool_call.result # None
    /\ tool_call.result.email # tool_call.args.email

=============================================================================
